---------------------------- MODULE Spec2Model ----------------------------
(***************************************************************************)
(* Model of all2webp_webm.py: a recursive batch converter that walks a     *)
(* directory tree, classifies files by extension and calls ffmpeg/ffprobe  *)
(* to re-encode them to WebP / WebM.                                       *)
(*                                                                         *)
(* Text (file names, probe output, bitrate strings) is modelled as         *)
(* sequences of one-character strings, so that suffix extraction,          *)
(* lower-casing, stripping, digit parsing and number formatting are        *)
(* computed the way the code computes them.                                *)
(***************************************************************************)
EXTENDS Integers, Sequences, FiniteSets, TLC

VARIABLES
    pc,              \* position of main(): "check_ffmpeg", "root_check", "walk", "done", "exited"
    exit_code,       \* <<>> while running, <<n>> once the process has ended
    fs,              \* the regular files that exist under the root (set of paths)
    fs0,             \* the files that existed when the run started
    root_is_dir,     \* whether args.input_dir resolves to a directory
    force,           \* args.force
    default_bitrate, \* args.default_bitrate
    version_queries, \* the version queries check_ffmpeg issued, with their result
    root_checked,    \* whether root_dir.is_dir() has been evaluated
    dirs_todo,       \* directories os.walk has still to list
    walked,          \* directories os.walk has listed
    dirpath,         \* the directory whose files are being processed
    filenames,       \* the names of the current listing not yet processed
    listed,          \* every path the walk has enumerated and processed so far
    tasks,           \* input path -> the convert_file calls made for it
    invoked,         \* output path -> results of the transcodes that wrote to it, in order
    call             \* <<>> or <<the last convert_file call>>

vars == <<pc, exit_code, fs, fs0, root_is_dir, force, default_bitrate,
          version_queries, root_checked, dirs_todo, walked, dirpath,
          filenames, listed, tasks, invoked, call>>

---------------------------------------------------------------------------
(* Bounds of the model *)

\* at most this many files exist under the root when the run starts
MaxFiles == 2
\* the bitrate samples cover every kbps value 0..MaxKbps (around the lower clamp)
MaxKbps == 9
\* digit samples are also tried with up to this many leading zeros
MaxZeros == 1

---------------------------------------------------------------------------
(* Text helpers *)

\* the value the probing functions return for "could not determine"
None == <<"None">>

Digits == <<"0", "1", "2", "3", "4", "5", "6", "7", "8", "9">>
UpperCase == <<"A", "B", "C", "D", "E", "F", "G", "H", "I", "J", "K", "L", "M",
               "N", "O", "P", "Q", "R", "S", "T", "U", "V", "W", "X", "Y", "Z">>
LowerCase == <<"a", "b", "c", "d", "e", "f", "g", "h", "i", "j", "k", "l", "m",
               "n", "o", "p", "q", "r", "s", "t", "u", "v", "w", "x", "y", "z">>
Whitespace == {" ", "\n", "\t"}
\* a character for which str.isdigit() is true but int() raises ValueError
SuperscriptTwo == "sup2"

Range(s) == {s[i] : i \in DOMAIN s}

\* str.lower() on one character
LowerChar(c) ==
    IF \E i \in DOMAIN UpperCase : UpperCase[i] = c
    THEN LowerCase[CHOOSE i \in DOMAIN UpperCase : UpperCase[i] = c]
    ELSE c

\* str.lower()
Lower(s) == [i \in DOMAIN s |-> LowerChar(s[i])]

\* str.strip(): drop leading and trailing whitespace
RECURSIVE LStrip(_)
LStrip(s) ==
    IF s # <<>> /\ Head(s) \in Whitespace THEN LStrip(Tail(s)) ELSE s

RECURSIVE RStrip(_)
RStrip(s) ==
    IF s # <<>> /\ s[Len(s)] \in Whitespace
    THEN RStrip(SubSeq(s, 1, Len(s) - 1))
    ELSE s

Strip(s) == RStrip(LStrip(s))

\* str.isdigit(): non-empty and every character a digit character
IsDigit(s) ==
    /\ s # <<>>
    /\ \A i \in DOMAIN s : s[i] \in Range(Digits) \cup {SuperscriptTwo}

DigitValue(c) == (CHOOSE i \in DOMAIN Digits : Digits[i] = c) - 1

\* int(s) for a string of decimal digits
RECURSIVE ParseInt(_)
ParseInt(s) ==
    IF s = <<>> THEN 0
    ELSE 10 * ParseInt(SubSeq(s, 1, Len(s) - 1)) + DigitValue(s[Len(s)])

\* int(s) raises ValueError when s holds a character that is no decimal digit
IntRaises(s) == \E i \in DOMAIN s : s[i] \notin Range(Digits)

\* str(n) for n >= 0
RECURSIVE IntToStr(_)
IntToStr(n) ==
    IF n < 10 THEN <<Digits[n + 1]>>
    ELSE IntToStr(n \div 10) \o <<Digits[(n % 10) + 1]>>

---------------------------------------------------------------------------
(* Extension sets and classification *)

IMAGE_EXTS ==
    {<<".", "j", "p", "g">>,
     <<".", "j", "p", "e", "g">>,
     <<".", "p", "n", "g">>,
     <<".", "g", "i", "f">>,
     <<".", "b", "m", "p">>,
     <<".", "t", "i", "f", "f">>,
     <<".", "t", "i", "f">>,
     <<".", "w", "e", "b", "p">>,
     <<".", "a", "p", "n", "g">>}

VIDEO_EXTS ==
    {<<".", "m", "p", "4">>,
     <<".", "a", "v", "i">>,
     <<".", "m", "o", "v">>,
     <<".", "m", "k", "v">>,
     <<".", "f", "l", "v">>,
     <<".", "w", "m", "v">>,
     <<".", "m", "4", "v">>,
     <<".", "m", "p", "g">>,
     <<".", "m", "p", "e", "g">>}

AUDIO_EXTS ==
    {<<".", "m", "p", "3">>,
     <<".", "f", "l", "a", "c">>,
     <<".", "w", "a", "v">>,
     <<".", "a", "a", "c">>,
     <<".", "o", "g", "g">>,
     <<".", "m", "4", "a">>,
     <<".", "w", "m", "a">>,
     <<".", "o", "p", "u", "s">>}

WEBP == <<".", "w", "e", "b", "p">>
WEBM == <<".", "w", "e", "b", "m">>

\* the index of the last "." of a name, 0 when it has none (str.rfind, 1-based)
LastDot(name) ==
    IF \E i \in DOMAIN name : name[i] = "."
    THEN CHOOSE i \in DOMAIN name :
            name[i] = "." /\ \A j \in DOMAIN name : name[j] = "." => j <= i
    ELSE 0

\* Path.suffix: the text from the last dot on, unless that dot starts or ends the name
Suffix(name) ==
    LET i == LastDot(name)
    IN  IF 1 < i /\ i < Len(name) THEN SubSeq(name, i, Len(name)) ELSE <<>>

\* a faulty variant of Ext: the suffix is compared as written
ExtCaseSensitive(name) == Suffix(name)

\* the extension a file is classified by: input_path.suffix.lower()
Ext(name) == Lower(Suffix(name))

\* Path.with_suffix on the file name
NameWithSuffix(name, suffix) ==
    LET old == Suffix(name)
    IN  IF old = <<>> THEN name \o suffix
        ELSE SubSeq(name, 1, Len(name) - Len(old)) \o suffix

with_suffix(path, suffix) ==
    [dir |-> path.dir, name |-> NameWithSuffix(path.name, suffix)]

\* the if/elif chain of main: the class of an extension, "" when none matches
FileType(ext) ==
    IF ext \in IMAGE_EXTS THEN "image"
    ELSE IF ext \in VIDEO_EXTS THEN "video"
    ELSE IF ext \in AUDIO_EXTS THEN "audio"
    ELSE ""

\* the output suffix main passes to with_suffix for a class
OutSuffix(file_type) == IF file_type = "image" THEN WEBP ELSE WEBM

---------------------------------------------------------------------------
(* Stream Prober *)

\* An ffprobe run is a record [err, stdout]: err when subprocess.run raised
\* (non-zero exit or the tool vanished), stdout its captured output otherwise.

\* a faulty variant of has_audio_stream: a failed probe counts as "has audio"
has_audio_stream_unsafe(probe) ==
    IF probe.err THEN TRUE ELSE Strip(probe.stdout) # <<>>

\* has_audio_stream: any non-blank output means an audio stream; errors mean none
has_audio_stream(probe) ==
    IF probe.err THEN FALSE ELSE Strip(probe.stdout) # <<>>

\* a faulty variant of ClampKbps: the codec's own lower limit of 6 is used
ClampKbpsCodecMin(kbps) ==
    IF kbps < 6 THEN 6 ELSE IF kbps > 510 THEN 510 ELSE kbps

\* the if/elif of get_audio_bitrate that limits kbps to 8..510
ClampKbps(kbps) ==
    IF kbps < 8 THEN 8 ELSE IF kbps > 510 THEN 510 ELSE kbps

\* get_audio_bitrate: '<kbps>k' from the probed bits per second, or None
get_audio_bitrate(probe) ==
    IF probe.err THEN None
    ELSE LET bitrate_str == Strip(probe.stdout)
         IN  IF IsDigit(bitrate_str)
             THEN IF IntRaises(bitrate_str) THEN None
                  ELSE LET bitrate_bps == ParseInt(bitrate_str)
                       IN  IF bitrate_bps = 0 THEN None
                           ELSE IntToStr(ClampKbps(bitrate_bps \div 1000)) \o <<"k">>
             ELSE None

\* the bitrate convert_file puts into the command
AudioBitrate(probed) == IF probed = None THEN default_bitrate ELSE probed

---------------------------------------------------------------------------
(* Command construction.  A command is [prog, input, opts, b_a, output]:    *)
(* argv is prog, "-i", input, the option tokens opts, the value b_a of a    *)
(* trailing "-b:a" when opts ends with one, "-y", output.                   *)

ImageCmd(input_path, output_path) ==
    [prog |-> "ffmpeg", input |-> input_path,
     opts |-> <<"-c:v", "libwebp", "-lossless", "1", "-compression_level", "6",
                "-loop", "0", "-an">>,
     b_a |-> <<>>, output |-> output_path]

\* a faulty variant of VideoCmd: the audio branch is attached unconditionally
VideoCmdAlwaysAudio(input_path, output_path, has_audio, audio_bitrate) ==
    [prog |-> "ffmpeg", input |-> input_path,
     opts |-> <<"-c:v", "libvpx-vp9", "-lossless", "1", "-b:v", "0",
                "-pix_fmt", "yuva420p", "-c:a", "libopus", "-b:a">>,
     b_a |-> IF has_audio THEN audio_bitrate ELSE default_bitrate,
     output |-> output_path]

VideoCmd(input_path, output_path, has_audio, audio_bitrate) ==
    IF has_audio
    THEN [prog |-> "ffmpeg", input |-> input_path,
          opts |-> <<"-c:v", "libvpx-vp9", "-lossless", "1", "-b:v", "0",
                     "-pix_fmt", "yuva420p", "-c:a", "libopus", "-b:a">>,
          b_a |-> audio_bitrate, output |-> output_path]
    ELSE [prog |-> "ffmpeg", input |-> input_path,
          opts |-> <<"-c:v", "libvpx-vp9", "-lossless", "1", "-b:v", "0",
                     "-pix_fmt", "yuva420p", "-an">>,
          b_a |-> <<>>, output |-> output_path]

AudioCmd(input_path, output_path, audio_bitrate) ==
    [prog |-> "ffmpeg", input |-> input_path,
     opts |-> <<"-c:a", "libopus", "-b:a">>,
     b_a |-> audio_bitrate, output |-> output_path]

---------------------------------------------------------------------------
(* The environment: the directory tree, the files, what the tools answer *)

ROOT == "root"
SUB == "root/sub"

\* the subdirectories os.walk finds in a directory (the tree of directories is fixed)
Subdirs(dir) == IF dir = ROOT THEN <<SUB>> ELSE <<>>

File(dir, name) == [dir |-> dir, name |-> name]

\* the files a run of the main specification may start with
Universe ==
    {File(ROOT, <<"a", ".", "j", "p", "g">>),
     File(ROOT, <<"a", ".", "P", "N", "G">>),
     File(ROOT, <<"a", ".", "w", "e", "b", "p">>),
     File(ROOT, <<"a", ".", "m", "p", "4">>),
     File(ROOT, <<"a", ".", "m", "p", "3">>),
     File(ROOT, <<"a", ".", "w", "e", "b", "m">>),
     File(SUB, <<"a", ".", "j", "p", "g">>),
     File(SUB, <<"a", ".", "m", "p", "3">>)}

\* every way of writing a text in upper and lower case letters
UpperChar(c) ==
    IF \E i \in DOMAIN LowerCase : LowerCase[i] = c
    THEN UpperCase[CHOOSE i \in DOMAIN LowerCase : LowerCase[i] = c]
    ELSE c

CaseVariants(s) ==
    {t \in [DOMAIN s -> Range(s) \cup {UpperChar(s[i]) : i \in DOMAIN s}] :
        \A i \in DOMAIN s : t[i] \in {s[i], UpperChar(s[i])}}

\* names that must not be classified, or whose suffix is not the whole tail
OddNames ==
    {<<"b", ".", "t", "x", "t">>,
     <<".", "m", "p", "3">>,
     <<"a", ".">>,
     <<"a">>,
     <<"m", "p", "3">>,
     <<"a", ".", "w", "e", "b", "m">>,
     <<"a", ".", "j", "p", "g", "x">>,
     <<"a", ".", "j", "p", "g", ".", "t", "x", "t">>,
     <<"a", ".", "t", "x", "t", ".", "M", "p", "3">>,
     <<"a", ".", ".", "m", "k", "v">>}

\* the files of the classification runs: one stem with every supported
\* extension in every letter case, and the odd names
ClassifyPaths ==
    {File(ROOT, <<"a">> \o e) :
        e \in UNION {CaseVariants(x) : x \in IMAGE_EXTS \cup VIDEO_EXTS \cup AUDIO_EXTS}}
    \cup {File(ROOT, n) : n \in OddNames}

\* the files of the bitrate runs: one of each class, and one unsupported
BitratePaths ==
    {File(ROOT, <<"a", ".", "j", "p", "g">>),
     File(ROOT, <<"a", ".", "w", "e", "b", "p">>),
     File(ROOT, <<"a", ".", "m", "p", "4">>),
     File(ROOT, <<"a", ".", "m", "p", "3">>),
     File(ROOT, <<"b", ".", "t", "x", "t">>)}

DefaultBitrates == {<<"1", "2", "8", "k">>, <<"6", "4", "k">>}

\* what the stream-index query of ffprobe may answer
HasAudioProbes ==
    {[err |-> TRUE, stdout |-> <<>>],
     [err |-> FALSE, stdout |-> <<>>],
     [err |-> FALSE, stdout |-> <<"\n">>],
     [err |-> FALSE, stdout |-> <<"0", "\n">>],
     [err |-> FALSE, stdout |-> <<"1", "\n", "2", "\n">>]}

\* What the bit_rate query of ffprobe may answer.  is_digits and bps say how
\* the answer was made: bps written in decimal, or some other text.
ErrProbe == [err |-> TRUE, stdout |-> <<>>, is_digits |-> FALSE, bps |-> 0]

RECURSIVE Zeros(_)
Zeros(n) == IF n = 0 THEN <<>> ELSE <<"0">> \o Zeros(n - 1)

DigitProbe(bps, zeros, tail) ==
    [err |-> FALSE, stdout |-> Zeros(zeros) \o IntToStr(bps) \o tail,
     is_digits |-> TRUE, bps |-> bps]

JunkProbe(text) == [err |-> FALSE, stdout |-> text, is_digits |-> FALSE, bps |-> 0]

KbpsSamples == (0 .. MaxKbps) \cup {127, 128, 509, 510, 511, 600000}

BpsSamples == {k * 1000 + r : k \in KbpsSamples, r \in {0, 1, 999}}

BitrateProbes ==
    {DigitProbe(b, z, <<"\n">>) : b \in BpsSamples, z \in 0 .. MaxZeros}
    \cup {DigitProbe(b, 0, <<>>) : b \in {0, 5000, 128000}}
    \cup {JunkProbe(t) : t \in {<<>>, <<"\n">>, <<"N", "/", "A", "\n">>,
                                <<"1", "2", "x", "\n">>, <<"-", "1", "\n">>,
                                <<"1", " ", "2", "\n">>,
                                <<SuperscriptTwo, "\n">>,
                                <<"8", "\n", "8", "\n">>}}
    \cup {ErrProbe}

\* the answers tried in the runs over several files
SmallProbes ==
    {ErrProbe,
     JunkProbe(<<"N", "/", "A", "\n">>),
     DigitProbe(0, 0, <<"\n">>),
     DigitProbe(5000, 0, <<"\n">>),
     DigitProbe(128000, 0, <<"\n">>)}

\* how a transcode may end: exit 0 with the output written; non-zero exit
\* with nothing written; non-zero exit with a partial output left behind
FfmpegResults == {"ok", "fail_clean", "fail_partial"}

---------------------------------------------------------------------------
(* Conversion Dispatcher: convert_file *)

\* a faulty variant of SkipsExisting: the existence check is missing
SkipsNever(output_path) == FALSE

\* a faulty variant of SkipsExisting: the force flag is not consulted
SkipsIgnoringForce(output_path) == output_path \in fs

\* the guard of convert_file's first statement
SkipsExisting(output_path) == output_path \in fs /\ ~force

\* a faulty variant of TranscodeErrorCaught: the wrong exception class is named
CatchesOnlyFileNotFound(exc) == exc = "FileNotFoundError"

\* the except clause around each transcoding subprocess.run
TranscodeErrorCaught(exc) == exc = "CalledProcessError"

\* the record of a convert_file call, as it stands on entry
NewCall(input_path, output_path, file_type) ==
    [input |-> input_path, output |-> output_path, file_type |-> file_type,
     force |-> force, existed |-> output_path \in fs, fs_before |-> fs,
     probes |-> <<>>, audio_probe |-> <<>>, has_audio |-> <<>>,
     bitrate_probe |-> <<>>, bitrate |-> <<>>, cmd |-> <<>>,
     existed_at_run |-> <<>>, result |-> "", raised |-> "", outcome |-> ""]

\* subprocess.run(cmd, check=True) inside try/except, ending with result res
Ran(c, cmd, res) ==
    LET exc == IF res = "ok" THEN "" ELSE "CalledProcessError"
    IN  [c EXCEPT !.probes = Append(@, "transcode"),
                  !.cmd = <<cmd>>,
                  !.existed_at_run = <<cmd.output \in fs>>,
                  !.result = res,
                  !.raised = IF exc = "" \/ TranscodeErrorCaught(exc) THEN "" ELSE exc,
                  !.outcome = IF res = "ok" THEN "converted"
                              ELSE IF TranscodeErrorCaught(exc) THEN "failed"
                              ELSE "crashed"]

WithAudioProbe(c, probe) ==
    [c EXCEPT !.probes = Append(@, "has_audio"),
              !.audio_probe = <<probe>>,
              !.has_audio = <<has_audio_stream(probe)>>]

WithBitrateProbe(c, probe) ==
    [c EXCEPT !.probes = Append(@, "bitrate"),
              !.bitrate_probe = <<probe>>,
              !.bitrate = get_audio_bitrate(probe)]

\* the video branch
VideoCall(c, audio_probe, bitrate_probe, res) ==
    LET c1 == WithAudioProbe(c, audio_probe)
    IN  IF c1.has_audio[1]
        THEN LET c2 == WithBitrateProbe(c1, bitrate_probe)
             IN  Ran(c2, VideoCmd(c.input, c.output, TRUE, AudioBitrate(c2.bitrate)), res)
        ELSE Ran(c1, VideoCmd(c.input, c.output, FALSE, <<>>), res)

\* the audio branch
AudioCall(c, audio_probe, bitrate_probe, res) ==
    LET c1 == WithAudioProbe(c, audio_probe)
    IN  IF ~c1.has_audio[1]
        THEN [c1 EXCEPT !.outcome = "no_audio_skipped"]
        ELSE LET c2 == WithBitrateProbe(c1, bitrate_probe)
             IN  Ran(c2, AudioCmd(c.input, c.output, AudioBitrate(c2.bitrate)), res)

\* convert_file, given what the tools answer when they are asked: the answer
\* to the stream-index query, the answer to the bit_rate query and the way
\* the transcode ends.  An answer is not used when the code does not ask.
convert_file(input_path, output_path, file_type, audio_probe, bitrate_probe, res) ==
    LET c == NewCall(input_path, output_path, file_type)
    IN  IF SkipsExisting(output_path)
        THEN [c EXCEPT !.outcome = "skipped_exists"]
        ELSE IF file_type = "image" THEN Ran(c, ImageCmd(input_path, output_path), res)
        ELSE IF file_type = "video" THEN VideoCall(c, audio_probe, bitrate_probe, res)
        ELSE AudioCall(c, audio_probe, bitrate_probe, res)

\* the effect of a finished convert_file call c on the state
Apply(c) ==
    /\ call' = <<c>>
    /\ fs' = IF c.result \in {"ok", "fail_partial"} THEN fs \cup {c.output} ELSE fs
    /\ invoked' =
          IF c.cmd = <<>> THEN invoked
          ELSE [o \in DOMAIN invoked \cup {c.output} |->
                   IF o = c.output
                   THEN (IF o \in DOMAIN invoked THEN invoked[o] ELSE <<>>) \o <<c.result>>
                   ELSE invoked[o]]
    /\ tasks' =
          [p \in DOMAIN tasks \cup {c.input} |->
              IF p = c.input
              THEN [n |-> IF p \in DOMAIN tasks THEN tasks[p].n + 1 ELSE 1,
                    output |-> c.output, file_type |-> c.file_type,
                    outcome |-> c.outcome,
                    order |-> Cardinality(DOMAIN tasks) + 1]
              ELSE tasks[p]]
    /\ IF c.raised = ""
       THEN UNCHANGED <<pc, exit_code>>
       ELSE pc' = "exited" /\ exit_code' = <<1>>

---------------------------------------------------------------------------
(* main *)

\* a faulty variant of ChecksPass: only the first query's result is looked at
FirstCheckPasses(queries) == queries[1].ok

\* check_ffmpeg returns normally only when no version query raised
ChecksPass(queries) == \A i \in DOMAIN queries : queries[i].ok

\* check_ffmpeg: the second query is not issued when the first one raises
CheckFfmpeg ==
    /\ pc = "check_ffmpeg"
    /\ \E ffmpeg_ok \in BOOLEAN, ffprobe_ok \in BOOLEAN :
          /\ version_queries' =
                IF ffmpeg_ok
                THEN <<[tool |-> "ffmpeg", ok |-> TRUE],
                       [tool |-> "ffprobe", ok |-> ffprobe_ok]>>
                ELSE <<[tool |-> "ffmpeg", ok |-> FALSE]>>
          /\ IF ChecksPass(version_queries')
             THEN pc' = "root_check" /\ UNCHANGED exit_code
             ELSE pc' = "exited" /\ exit_code' = <<1>>
    /\ UNCHANGED <<fs, fs0, root_is_dir, force, default_bitrate, root_checked,
                   dirs_todo, walked, dirpath, filenames, listed, tasks,
                   invoked, call>>

\* root_dir.is_dir(), then the start of os.walk
RootCheck ==
    /\ pc = "root_check"
    /\ root_checked' = TRUE
    /\ IF root_is_dir
       THEN pc' = "walk" /\ dirs_todo' = <<ROOT>> /\ UNCHANGED exit_code
       ELSE pc' = "exited" /\ exit_code' = <<1>> /\ UNCHANGED dirs_todo
    /\ UNCHANGED <<fs, fs0, root_is_dir, force, default_bitrate, version_queries,
                   walked, dirpath, filenames, listed, tasks, invoked, call>>

\* os.walk yields the next directory: its files are listed now, its
\* subdirectories are visited next
WalkDir ==
    /\ pc = "walk"
    /\ filenames = {}
    /\ dirs_todo # <<>>
    /\ dirpath' = Head(dirs_todo)
    /\ filenames' = {p.name : p \in {q \in fs : q.dir = Head(dirs_todo)}}
    /\ dirs_todo' = Subdirs(Head(dirs_todo)) \o Tail(dirs_todo)
    /\ walked' = walked \cup {Head(dirs_todo)}
    /\ UNCHANGED <<pc, exit_code, fs, fs0, root_is_dir, force, default_bitrate,
                   version_queries, root_checked, listed, tasks, invoked, call>>

\* one iteration of "for filename in filenames", in any order
ProcessFile(Probes) ==
    /\ pc = "walk"
    /\ filenames # {}
    /\ \E filename \in filenames, audio_probe \in HasAudioProbes,
          bitrate_probe \in Probes, res \in FfmpegResults :
          \E input_path \in {File(dirpath, filename)},
             file_type \in {FileType(Ext(filename))} :
              /\ filenames' = filenames \ {filename}
              /\ listed' = listed \cup {input_path}
              /\ IF file_type = ""
                 THEN UNCHANGED <<pc, exit_code, fs, tasks, invoked, call>>
                 ELSE \E out_path \in {with_suffix(input_path, OutSuffix(file_type))} :
                         \E c \in {convert_file(input_path, out_path, file_type,
                                                audio_probe, bitrate_probe, res)} :
                             Apply(c)
    /\ UNCHANGED <<fs0, root_is_dir, force, default_bitrate, version_queries,
                   root_checked, dirs_todo, walked, dirpath>>

\* os.walk is exhausted: main returns
Finish ==
    /\ pc = "walk"
    /\ filenames = {}
    /\ dirs_todo = <<>>
    /\ pc' = "done"
    /\ exit_code' = <<0>>
    /\ UNCHANGED <<fs, fs0, root_is_dir, force, default_bitrate, version_queries,
                   root_checked, dirs_todo, walked, dirpath, filenames, listed,
                   tasks, invoked, call>>

\* the state after argument parsing, for a run that starts with one of Starts
InitWith(Starts) ==
    /\ pc = "check_ffmpeg"
    /\ exit_code = <<>>
    /\ root_is_dir \in BOOLEAN
    /\ fs \in (IF root_is_dir THEN Starts ELSE {{}})
    /\ fs0 = fs
    /\ force \in BOOLEAN
    /\ default_bitrate \in DefaultBitrates
    /\ version_queries = <<>>
    /\ root_checked = FALSE
    /\ dirs_todo = <<>>
    /\ walked = {}
    /\ dirpath = ROOT
    /\ filenames = {}
    /\ listed = {}
    /\ tasks = <<>>
    /\ invoked = <<>>
    /\ call = <<>>

\* runs over up to MaxFiles files
Init == InitWith({S \in SUBSET Universe : Cardinality(S) <= MaxFiles})

Next ==
    \/ CheckFfmpeg
    \/ RootCheck
    \/ WalkDir
    \/ ProcessFile(SmallProbes)
    \/ Finish

Spec == Init /\ [][Next]_vars

\* Weak fairness of the loop body, written out.  An iteration is possible
\* exactly when pc = "walk" and a listed name is left (convert_file returns
\* for every answer of the tools), and the iterations are the steps that
\* take a name off the listing.
LoopAdvances ==
    \/ []<>~(pc = "walk" /\ filenames # {})
    \/ []<><<pc = "walk" /\ filenames' # filenames>>_vars

\* main is sequential and every call it makes returns: each step that is
\* possible is eventually taken
FairSpec ==
    /\ Spec
    /\ WF_vars(CheckFfmpeg)
    /\ WF_vars(RootCheck)
    /\ WF_vars(WalkDir)
    /\ WF_vars(Finish)
    /\ LoopAdvances

\* runs over one file, named in every supported spelling
InitClassify == InitWith({{p} : p \in ClassifyPaths})

SpecClassify == InitClassify /\ [][Next]_vars

\* runs over one file, with every sampled answer to the bitrate query
InitBitrate == InitWith({{p} : p \in BitratePaths})

NextBitrate ==
    \/ CheckFfmpeg
    \/ RootCheck
    \/ WalkDir
    \/ ProcessFile(BitrateProbes)
    \/ Finish

SpecBitrate == InitBitrate /\ [][NextBitrate]_vars

---------------------------------------------------------------------------
(* Properties *)

\* the transcode of the last call, when it issued one
Transcoded(c) == c.cmd # <<>>

\* an ffprobe answer in which no audio stream index can be read
NoAudioDetected(probe) ==
    probe.err \/ \A i \in DOMAIN probe.stdout : probe.stdout[i] \in Whitespace

\* C1: when the destination exists on entry and force is false, convert_file
\* issues no probe and no transcode, the outcome is skipped-exists and the
\* filesystem is unchanged, for every file class.
C1_SkipExistingDoesNothing ==
    call # <<>> =>
        LET c == call[1]
        IN  (c.existed /\ ~c.force) =>
                /\ c.probes = <<>>
                /\ c.audio_probe = <<>>
                /\ c.bitrate_probe = <<>>
                /\ ~Transcoded(c)
                /\ c.outcome = "skipped_exists"
                /\ fs = c.fs_before

C1_Witness ==
    /\ call # <<>>
    /\ call[1].existed
    /\ ~call[1].force
    /\ call[1].file_type = "video"
    /\ call[1].outcome = "skipped_exists"

\* C2 as stated: when the destination exists and force is true, convert_file
\* runs the transcode with the existing destination as output, for all three
\* file classes.
C2_ForceAlwaysTranscodes ==
    call # <<>> =>
        LET c == call[1]
        IN  (c.existed /\ c.force) =>
                /\ c.outcome # "skipped_exists"
                /\ Transcoded(c)
                /\ c.cmd[1].output = c.output

\* C2 as amended: when the destination exists and force is true, the call is
\* not skipped for the existing destination; it runs the transcode onto the
\* existing destination for image and video files and for audio files in
\* which an audio stream was detected; an audio file with no detected audio
\* stream ends without a transcode and leaves the destination as it was.
C2_ForceTranscodesUnlessNoAudio ==
    call # <<>> =>
        LET c == call[1]
        IN  (c.existed /\ c.force) =>
                /\ c.outcome # "skipped_exists"
                /\ IF c.file_type = "audio" /\ c.audio_probe # <<>>
                      /\ NoAudioDetected(c.audio_probe[1])
                   THEN /\ ~Transcoded(c)
                        /\ c.outcome = "no_audio_skipped"
                        /\ fs = c.fs_before
                   ELSE /\ Transcoded(c)
                        /\ c.cmd[1].output = c.output
                        /\ c.existed_at_run = <<TRUE>>
                        /\ c.outcome \in {"converted", "failed"}
                        /\ c.output \in fs

C2_Witness ==
    /\ call # <<>>
    /\ call[1].existed
    /\ call[1].force
    /\ call[1].file_type = "audio"
    /\ Transcoded(call[1])
    /\ call[1].outcome = "converted"

\* every enumerated file with a supported extension was handed to
\* convert_file exactly once, and nothing else was
HandedExactlyOnce ==
    /\ \A p \in listed :
          FileType(Ext(p.name)) # "" => p \in DOMAIN tasks /\ tasks[p].n = 1
    /\ \A p \in DOMAIN tasks : p \in listed /\ FileType(Ext(p.name)) # ""

\* C3: once the dependency and root checks have passed, the run ends with
\* exit code 0 having enumerated every file under the root and handed every
\* classified one to convert_file exactly once, whatever the transcodes did.
C3_FailuresNeverStopTheRun ==
    (pc = "walk") ~>
        (/\ pc = "done"
         /\ exit_code = <<0>>
         /\ listed = fs0
         /\ HandedExactlyOnce)

C3_Witness ==
    /\ pc = "done"
    /\ \E p \in DOMAIN tasks, q \in DOMAIN tasks :
          /\ tasks[p].outcome = "failed"
          /\ tasks[q].order > tasks[p].order
          /\ tasks[q].outcome = "converted"

\* C4: when a version query fails the run ends with a non-zero exit code
\* without a root check, a directory listing, a probe or a transcode; and
\* none of those ever happens before both version queries have succeeded.
C4_DependencyCheckFirst ==
    LET failed == \E i \in DOMAIN version_queries : ~version_queries[i].ok
        passed == /\ Len(version_queries) = 2
                  /\ \A i \in DOMAIN version_queries : version_queries[i].ok
    IN  /\ failed =>
              /\ pc = "exited"
              /\ exit_code # <<>>
              /\ exit_code[1] # 0
              /\ ~root_checked
              /\ walked = {}
              /\ listed = {}
              /\ DOMAIN tasks = {}
              /\ DOMAIN invoked = {}
              /\ call = <<>>
              /\ fs = fs0
        /\ (\/ root_checked
            \/ walked # {}
            \/ call # <<>>
            \/ pc \in {"root_check", "walk", "done"}) => passed

C4_Witness ==
    /\ Len(version_queries) = 2
    /\ ~version_queries[2].ok
    /\ pc = "exited"
    /\ fs0 # {}

\* C5: the command of a video task has no audio branch (-an, no -c:a, no
\* -b:a) and no bitrate probe is made when no audio stream was detected; it
\* has the branch -c:a libopus -b:a B when one was detected, B being the
\* probed bitrate, or the default bitrate when the probe returned None.
C5_VideoAudioBranch ==
    call # <<>> =>
        LET c == call[1]
        IN  (c.file_type = "video" /\ Transcoded(c)) =>
                LET cmd == c.cmd[1]
                    n == Len(cmd.opts)
                IN  IF NoAudioDetected(c.audio_probe[1])
                    THEN /\ cmd.opts[n] = "-an"
                         /\ "-c:a" \notin Range(cmd.opts)
                         /\ "-b:a" \notin Range(cmd.opts)
                         /\ cmd.b_a = <<>>
                         /\ c.bitrate_probe = <<>>
                         /\ c.probes = <<"has_audio", "transcode">>
                    ELSE /\ SubSeq(cmd.opts, n - 2, n) = <<"-c:a", "libopus", "-b:a">>
                         /\ "-an" \notin Range(cmd.opts)
                         /\ c.probes = <<"has_audio", "bitrate", "transcode">>
                         /\ cmd.b_a = IF c.bitrate = None THEN default_bitrate
                                      ELSE c.bitrate

C5_Witness ==
    /\ call # <<>>
    /\ call[1].file_type = "video"
    /\ Transcoded(call[1])
    /\ ~NoAudioDetected(call[1].audio_probe[1])
    /\ call[1].cmd[1].b_a = <<"1", "2", "8", "k">>
    /\ default_bitrate = <<"6", "4", "k">>

\* C6: an audio task that is not skipped for an existing destination and in
\* which no audio stream is detected (the probe answered nothing, or failed)
\* ends without a bitrate probe or a transcode, creates no file, does not
\* raise, and the run goes on.
C6_AudioWithoutStream ==
    call # <<>> =>
        LET c == call[1]
        IN  (/\ c.file_type = "audio"
             /\ c.outcome # "skipped_exists"
             /\ NoAudioDetected(c.audio_probe[1])) =>
                /\ c.probes = <<"has_audio">>
                /\ c.bitrate_probe = <<>>
                /\ ~Transcoded(c)
                /\ c.outcome = "no_audio_skipped"
                /\ c.raised = ""
                /\ fs = c.fs_before
                /\ pc \in {"walk", "done"}
                /\ exit_code \in {<<>>, <<0>>}

C6_Witness ==
    /\ call # <<>>
    /\ call[1].file_type = "audio"
    /\ call[1].audio_probe # <<>>
    /\ call[1].audio_probe[1].err
    /\ call[1].outcome = "no_audio_skipped"
    /\ pc = "done"

\* min(510, max(8, bps div 1000))
ExpectedKbps(bps) ==
    LET k == bps \div 1000
        lo == IF k > 8 THEN k ELSE 8
    IN  IF lo < 510 THEN lo ELSE 510

\* C7: for a probe answer that is bps written in decimal digits,
\* get_audio_bitrate returns None when bps = 0 and otherwise '<n>k' with
\* n = min(510, max(8, bps div 1000)), so n is in 8..510; for any other
\* answer or a failed probe it returns None; and the command carries the
\* returned bitrate, or the default bitrate when None was returned.
C7_BitrateClamp ==
    call # <<>> =>
        LET c == call[1]
        IN  c.bitrate_probe # <<>> =>
                LET p == c.bitrate_probe[1]
                    r == c.bitrate
                    n == ExpectedKbps(p.bps)
                IN  /\ (p.err \/ ~p.is_digits \/ p.bps = 0) => r = None
                    /\ (~p.err /\ p.is_digits /\ p.bps > 0) =>
                          /\ r = IntToStr(n) \o <<"k">>
                          /\ n \in 8 .. 510
                          /\ p.bps = 5000 => r = <<"8", "k">>
                          /\ p.bps = 600000000 => r = <<"5", "1", "0", "k">>
                          /\ p.bps = 128000 => r = <<"1", "2", "8", "k">>
                          /\ p.bps \in 1 .. 7999 => r = <<"8", "k">>
                    /\ Transcoded(c) =>
                          c.cmd[1].b_a = IF r = None THEN default_bitrate ELSE r

C7_Witness ==
    /\ call # <<>>
    /\ call[1].bitrate_probe # <<>>
    /\ call[1].bitrate_probe[1].bps = 5000
    /\ call[1].bitrate = <<"8", "k">>
    /\ Transcoded(call[1])

\* C8 as stated: the destination paths of the tasks of one run are pairwise
\* distinct.
C8_DestinationsDistinct ==
    \A p \in DOMAIN tasks, q \in DOMAIN tasks :
        p # q => tasks[p].output # tasks[q].output

\* two characters that are the same letter in either case
SameLetter(x, y) ==
    \/ x = y
    \/ \E i \in DOMAIN LowerCase :
          {x, y} = {LowerCase[i], UpperCase[i]}

\* name is a non-empty stem followed by the extension e, in any letter case
HasExtension(name, e) ==
    /\ Len(name) > Len(e)
    /\ \A i \in DOMAIN e : SameLetter(name[Len(name) - Len(e) + i], e[i])

ExpectedClasses(name) ==
    {t \in {"image", "video", "audio"} :
        \E e \in (IF t = "image" THEN IMAGE_EXTS
                  ELSE IF t = "video" THEN VIDEO_EXTS ELSE AUDIO_EXTS) :
            HasExtension(name, e)}

ExpectedOutput(p, t) ==
    LET e == CHOOSE e \in IMAGE_EXTS \cup VIDEO_EXTS \cup AUDIO_EXTS :
                 HasExtension(p.name, e)
    IN  [dir |-> p.dir,
         name |-> SubSeq(p.name, 1, Len(p.name) - Len(e))
                  \o (IF t = "image" THEN <<".", "w", "e", "b", "p">>
                      ELSE <<".", "w", "e", "b", "m">>)]

\* C9: the three extension sets are pairwise disjoint; a file whose name ends
\* with an extension of a set, in any letter case, is handed to convert_file
\* with that set's class and with its extension replaced by .webp (image) or
\* .webm (video, audio); any other file is never handed to convert_file, and
\* a run with no task issues no invocation and writes nothing.
C9_Classification ==
    /\ IMAGE_EXTS \cap VIDEO_EXTS = {}
    /\ IMAGE_EXTS \cap AUDIO_EXTS = {}
    /\ VIDEO_EXTS \cap AUDIO_EXTS = {}
    /\ \A p \in listed :
          LET ts == ExpectedClasses(p.name)
          IN  /\ Cardinality(ts) <= 1
              /\ ts = {} => p \notin DOMAIN tasks
              /\ \A t \in ts :
                    /\ p \in DOMAIN tasks
                    /\ tasks[p].file_type = t
                    /\ tasks[p].output = ExpectedOutput(p, t)
    /\ DOMAIN tasks = {} =>
          /\ call = <<>>
          /\ DOMAIN invoked = {}
          /\ fs = fs0

C9_Witness ==
    LET p == File(ROOT, <<"a", ".", "J", "p", "E", "G">>)
    IN  /\ p \in DOMAIN tasks
        /\ tasks[p].file_type = "image"
        /\ tasks[p].output = File(ROOT, <<"a", ".", "w", "e", "b", "p">>)
        /\ tasks[p].outcome = "converted"

\* C10 as stated: without force, no transcode is issued onto an existing
\* path, no path that existed before the run is the output of a transcode,
\* and each destination is the output of at most one transcode per run.
C10_AtMostOneTranscodePerDestination ==
    ~force =>
        /\ call # <<>> /\ Transcoded(call[1]) => call[1].existed_at_run = <<FALSE>>
        /\ \A o \in DOMAIN invoked :
              /\ o \notin fs0
              /\ Len(invoked[o]) <= 1

\* What the code does guarantee where C10 fails: without force, no
\* transcode is issued onto an existing path, no path that existed before
\* the run is the output of a transcode, and each destination is the output
\* of at most one transcode that leaves a file there, which is then the last
\* transcode onto it; a transcode that failed leaving nothing may be
\* followed by another onto the same destination.
C10_NoTranscodeOntoExistingFile ==
    ~force =>
        /\ call # <<>> /\ Transcoded(call[1]) => call[1].existed_at_run = <<FALSE>>
        /\ \A o \in DOMAIN invoked :
              /\ o \notin fs0
              /\ \A i \in 1 .. (Len(invoked[o]) - 1) : invoked[o][i] = "fail_clean"

C10_TwoTranscodesReached ==
    /\ ~force
    /\ \E o \in DOMAIN invoked :
          /\ Len(invoked[o]) = 2
          /\ invoked[o][2] = "ok"

=============================================================================
